---- MODULE Spec2Model ----
(***************************************************************************)
(* Model of the watsonx -> OpenAI gateway (fastapi-watsonx/                *)
(* watsonxai_endpoint.py): the process-wide IAM token cache, the request   *)
(* handlers that use it, and the streaming relay generator.                *)
(*                                                                         *)
(* Scheduling.  Every endpoint is an `async def` and every network call    *)
(* outside the relay generator is a blocking `requests` call, so a handler *)
(* runs on the single event-loop thread from one `await` to the next       *)
(* without interleaving.  The variable `loop` is the request that holds    *)
(* the event loop (0 when it is free).  Wall-clock time keeps flowing      *)
(* while the loop is blocked in a network call.                            *)
(*                                                                         *)
(* Specifications.  Spec: the requests, the token cache and the clock.     *)
(* HandlerSpec: one handler run with its request, the upstream answer and  *)
(* its response recorded.  RelaySpec, RelayFairSpec: the relay generator   *)
(* of a streaming request whose handler has returned.  PayloadSpec: the   *)
(* translation of one inbound request into the upstream payload and        *)
(* headers.  ServeSpec: one request from its arrival to the end of its     *)
(* buffered or streamed response.  CancelSpec: the relay generator with a  *)
(* caller that may disconnect.                                             *)
(***************************************************************************)
EXTENDS Integers, Sequences, FiniteSets, TLC

(***************************************************************************)
(* Bounds of the model.                                                    *)
(***************************************************************************)
NumReqs ==
    2

MaxTicks ==
    2

StartTime ==
    1000

TickStep ==
    300

\* Upstream event lines one streamed response may carry.
MaxEvents ==
    2

\* Lines one network chunk of the upstream response may carry.
MaxChunkLines ==
    2

(***************************************************************************)
(* Program constants.                                                      *)
(***************************************************************************)
SafetyMargin ==
    600

NoToken ==
    0

Reqs ==
    1 .. NumReqs

\* Upstream lifetimes (expires_in) the identity provider may grant: one
\* shorter than the safety margin, one a little longer, and IBM's usual hour.
Lifetimes ==
    {300, 900, 3600}

\* The endpoints: POST /v1/completions, POST /v1/chat/completions (and its
\* /v1/chat/chat/completions alias), POST /v1/n8n/chat/completions,
\* GET /v1/models (and aliases), GET /v1/models/{id} (and aliases).
PostKinds ==
    {"completions", "chat", "n8n"}

GetKinds ==
    {"models", "model_by_id"}

Kinds ==
    PostKinds \cup GetKinds

\* Shapes of a 2xx identity response body: both fields, access_token
\* missing, expires_in missing (or not a number), not JSON at all.
IamShapes ==
    {"full", "no_access_token", "no_expires_in", "not_json"}

\* Statuses the upstream generation / chat / catalog endpoint may answer;
\* 0 stands for a transport failure (no response), 304 for a 3xx answer that
\* `requests` does not follow.
UpStatuses ==
    {0, 200, 304, 404, 503}

VARIABLES
    now,              \* time.time()
    cached_token,     \* global cached_token (NoToken is None)
    token_expiration, \* global token_expiration
    issued,           \* number of access tokens the identity provider minted
    cachedReal,       \* identity provider's view: true expiry of the token in cached_token
    lastWrite,        \* history: <<token, expiry>> stored by the last successful refresh
    idCalls,          \* history: number of calls made to the identity endpoint
    expires_in,       \* expires_in of the latest identity response read (0: none)
    loop,             \* request running on the event loop, 0 when free
    pc,               \* position of each request
    kind,             \* endpoint of the request being handled
    current_time,     \* get_iam_token's local current_time
    iam_token,        \* the handler's local iam_token / token
    tokenReal,        \* identity provider's view: true expiry of the token in iam_token
    iam_log,          \* which branch of get_iam_token the request took
    status,           \* HTTP status answered to the caller (0: none yet)
    upCalls,          \* history: calls the request made to the upstream endpoint
    sent,             \* history: the event lines the upstream has delivered
    lines,            \* lines of the current network chunk still to process
    acc,              \* the relay's accumulated_content
    out,              \* what the relay generator has yielded so far
    failure,          \* the exception the relay caught ("none": none)
    request_data,     \* history: the inbound request of the handler observed
    watsonx_data,     \* history: the upstream answer that handler received
    openai_response,  \* history: the HTTP response that handler returned
    request,          \* history: the inbound request whose translation is observed
    watsonx_payload,  \* history: the upstream payload built from it
    headers           \* history: the upstream headers built with it

vars ==
    <<now, cached_token, token_expiration, issued, cachedReal, lastWrite,
      idCalls, expires_in, loop, pc, kind, current_time, iam_token, tokenReal, iam_log,
      status, upCalls, sent, lines, acc, out, failure, request_data, watsonx_data,
      openai_response, request, watsonx_payload, headers>>

\* The record of one observed handler run; a specification that observes
\* none leaves it empty.
traceVars ==
    <<request_data, watsonx_data, openai_response, request, watsonx_payload, headers>>

\* The record of one observed translation.
payloadVars ==
    <<request, watsonx_payload, headers>>

NoInbound ==
    [path |-> "none"]

NoPayload ==
    [model_id |-> "none"]

NoHeaders ==
    [Accept |-> "none"]

NoRequest ==
    [r |-> 0, k |-> "none", body |-> "none", prompt |-> "absent", model_id |-> "none",
     input |-> <<>>]

NoReply ==
    [status |-> -1, body |-> [key |-> "missing", list |-> <<>>]]

NoResponse ==
    [status |-> 0, object |-> "none", choices |-> <<>>, usage |-> <<>>, detail |-> <<>>]

relayVars ==
    <<sent, lines, acc, out, failure>>

cacheVars ==
    <<cached_token, token_expiration, issued, cachedReal, lastWrite, idCalls,
      expires_in>>

(***************************************************************************)
(* get_iam_token                                                           *)
(***************************************************************************)
\* Python truthiness of cached_token (None is falsy; tokens are non-empty).
Truthy(tok) ==
    tok # NoToken

\* Variant of CacheValid with the comparison reversed.
CacheValidReversed(tok, exp, t) ==
    Truthy(tok) /\ t > exp

\* `if cached_token and current_time < token_expiration`
CacheValid(tok, exp, t) ==
    Truthy(tok) /\ t < exp

\* Variant of TokenExpiry that stores the lifetime left, not a point in time.
TokenExpiryRelative(t, lifetime) ==
    lifetime - SafetyMargin

\* Variant of TokenExpiry that reserves no safety margin.
TokenExpiryNoMargin(t, lifetime) ==
    t + lifetime

\* `token_expiration = current_time + expires_in - 600`
TokenExpiry(t, lifetime) ==
    t + lifetime - SafetyMargin

Init ==
    /\ now = StartTime
    /\ cached_token = NoToken
    /\ token_expiration = 0
    /\ issued = 0
    /\ cachedReal = 0
    /\ lastWrite = <<NoToken, 0>>
    /\ idCalls = 0
    /\ expires_in = 0
    /\ loop = 0
    /\ pc = [r \in Reqs |-> "wait"]
    /\ kind = [r \in Reqs |-> "none"]
    /\ current_time = [r \in Reqs |-> 0]
    /\ iam_token = [r \in Reqs |-> NoToken]
    /\ tokenReal = [r \in Reqs |-> 0]
    /\ iam_log = [r \in Reqs |-> "none"]
    /\ status = [r \in Reqs |-> 0]
    /\ upCalls = [r \in Reqs |-> 0]
    /\ sent = [r \in Reqs |-> <<>>]
    /\ lines = [r \in Reqs |-> <<>>]
    /\ acc = [r \in Reqs |-> <<>>]
    /\ out = [r \in Reqs |-> <<>>]
    /\ failure = [r \in Reqs |-> "none"]
    /\ request_data = NoRequest
    /\ watsonx_data = NoReply
    /\ openai_response = NoResponse
    /\ request = NoInbound
    /\ watsonx_payload = NoPayload
    /\ headers = NoHeaders

\* The wall clock advances, also while the event loop is blocked.
Tick ==
    /\ now < StartTime + MaxTicks * TickStep
    /\ now' = now + TickStep
    /\ UNCHANGED <<traceVars, relayVars, cacheVars, loop, pc, kind, current_time, iam_token,
                   tokenReal, iam_log, status, upCalls>>

\* The handler ends with an HTTP answer: its locals are gone and the event
\* loop is free again.
Answer(r, code) ==
    /\ status' = [status EXCEPT ![r] = code]
    /\ pc' = [pc EXCEPT ![r] = "done"]
    /\ kind' = [kind EXCEPT ![r] = "none"]
    /\ current_time' = [current_time EXCEPT ![r] = 0]
    /\ iam_token' = [iam_token EXCEPT ![r] = NoToken]
    /\ tokenReal' = [tokenReal EXCEPT ![r] = 0]
    /\ loop' = 0

\* The event loop is free and it is request r's turn.  The requests are
\* all in flight from the start, each waiting for the event loop to run its
\* handler, and they are numbered in the order the loop runs them.
Turn(r) ==
    /\ loop = 0
    /\ pc[r] = "wait"
    /\ \A q \in Reqs : q < r => pc[q] # "wait"

(***************************************************************************)
(* The handlers as functions of the inbound request and the upstream       *)
(* answer.  A field that a JSON object does not have is "absent".          *)
(***************************************************************************)
\* The inbound body: a JSON object, other JSON (a list, a number, null),
\* or no JSON.
BodyShapes ==
    {"object", "not_object", "not_json"}

\* The `prompt` of a legacy request: a list with a non-string element is
\* "mixed_list".
PromptShapes ==
    {"absent", "string", "list_of_strings", "mixed_list", "number", "object", "null"}

ModelIds ==
    {"ibm/granite", "meta/llama"}

\* results[0] of a legacy upstream answer.
LegacyItems ==
    [generated_text : {"absent", "Hello"},
     stop_reason : {"absent", "eos_token"},
     counts : {"absent", "given"}]

\* choices[i] of a chat upstream answer.
ChatItems ==
    [content : {"absent", "null", "Hello"},
     finish_reason : {"absent", "length"}]

\* model['model_limits'] of a catalog resource, when it has one.
ModelLimits ==
    {[key |-> "missing", max_output_tokens |-> 0, max_sequence_length |-> 0],
     [key |-> "present", max_output_tokens |-> 4096, max_sequence_length |-> 8192],
     [key |-> "present", max_output_tokens |-> 8192, max_sequence_length |-> 131072]}

\* The resources of the upstream catalog.
Resources ==
    [model_id : ModelIds, provider : {"IBM"}, source : {"Hugging Face"},
     model_limits : ModelLimits]

\* The lists an upstream answer may carry under `results` / `choices` /
\* `resources`, by endpoint.
UpLists(k) ==
    {<<>>} \cup
    (CASE k = "completions" ->
            {<<i>> : i \in LegacyItems} \cup {<<i, j>> : i \in LegacyItems, j \in LegacyItems}
       [] k \in {"chat", "n8n"} ->
            {<<i>> : i \in ChatItems} \cup {<<i, j>> : i \in ChatItems, j \in ChatItems}
       [] OTHER -> {<<m>> : m \in Resources} \cup {<<m, n>> : m \in Resources, n \in Resources})

\* The JSON body of an upstream answer: an object with that key and list,
\* or one without the key.
UpBodies(k) ==
    {[key |-> "present", list |-> l] : l \in UpLists(k)}
        \cup {[key |-> "missing", list |-> <<>>]}

Replies(k) ==
    [status : UpStatuses, body : UpBodies(k)]

HttpError(code, text) ==
    [status |-> code, object |-> "error", choices |-> <<>>, usage |-> <<>>,
     detail |-> text]

\* An exception no handler catches: the server answers 500.
Unhandled ==
    [status |-> 500, object |-> "unhandled", choices |-> <<>>, usage |-> <<>>,
     detail |-> <<"Internal Server Error">>]

Success(object, choices, usage) ==
    [status |-> 200, object |-> object, choices |-> choices, usage |-> usage,
     detail |-> <<>>]

\* response.raise_for_status() raises for 4xx and 5xx.
RaisesForStatus(s) ==
    s >= 400 /\ s < 600

\* Lines 323-337, 752-759, 901-908: what the handler answers before it asks
\* for a token, NoResponse when it goes on.
Validate(k, body, prompt) ==
    CASE body = "not_json" -> HttpError(400, <<"Invalid JSON request body">>)
      [] body = "not_object" -> Unhandled
      [] k = "completions" /\ prompt = "mixed_list" -> Unhandled
      [] k = "completions" /\ prompt \in {"number", "object", "null"} ->
           HttpError(400, <<"Invalid type for 'prompt'. Expected a string or list of strings.">>)
      [] OTHER -> NoResponse

\* " ".join(list) on texts (sequences of fragments).
RECURSIVE JoinWithSpace(_)
JoinWithSpace(list) ==
    IF list = <<>>
    THEN <<>>
    ELSE IF Len(list) = 1
         THEN list[1]
         ELSE list[1] \o <<" ">> \o JoinWithSpace(Tail(list))

\* The value of `prompt` in a request of each valid shape.
PromptValue(prompt) ==
    CASE prompt = "absent" -> <<>>
      [] prompt = "string" -> <<"a b">>
      [] prompt = "list_of_strings" -> << <<"a">>, <<"b">> >>

\* Lines 330-334: the `input` of the upstream payload.
PromptInput(prompt) ==
    IF prompt = "list_of_strings"
    THEN JoinWithSpace(PromptValue(prompt))
    ELSE PromptValue(prompt)

\* Variant of UpstreamError that answers every upstream error with 500.
UpstreamErrorAs500(reply) ==
    HttpError(500, <<"Error from Watsonx.ai: ", reply.body>>)

\* Lines 411-419 and 738-746: the error a failed buffered call is answered
\* with.
UpstreamError(reply) ==
    IF reply.status = 0
    THEN HttpError(500, <<"Error calling Watsonx.ai: ", "no response">>)
    ELSE HttpError(reply.status, <<"Error from Watsonx.ai: ", reply.body>>)

\* Variant of RespondLegacy that answers one choice for each upstream
\* result.
RespondLegacyAllResults(reply) ==
    IF reply.status = 0 \/ RaisesForStatus(reply.status)
    THEN UpstreamError(reply)
    ELSE LET results == reply.body.list
         IN  IF results = <<>>
             THEN Unhandled
             ELSE Success("text_completion",
                          [i \in 1 .. Len(results) |->
                            [text |-> IF results[i].generated_text # "absent"
                                      THEN results[i].generated_text
                                      ELSE "\n\nNo response available.",
                             finish_reason |-> IF results[i].stop_reason # "absent"
                                               THEN results[i].stop_reason
                                               ELSE "length"]],
                          IF results[1].counts = "given" THEN <<3, 4, 7>> ELSE <<5, 7, 12>>)

\* Lines 421-450: the legacy response.  results[0] is read at line 442
\* whether or not the list has an element.
RespondLegacy(reply) ==
    IF reply.status = 0 \/ RaisesForStatus(reply.status)
    THEN UpstreamError(reply)
    ELSE LET results == reply.body.list  \* watsonx_data.get("results", [])
         IN  IF results = <<>>
             THEN Unhandled
             ELSE Success("text_completion",
                          <<[text |-> IF results[1].generated_text # "absent"
                                      THEN results[1].generated_text
                                      ELSE "\n\nNo response available.",
                             finish_reason |-> IF results[1].stop_reason # "absent"
                                               THEN results[1].stop_reason
                                               ELSE "length"]>>,
                          IF results[1].counts = "given" THEN <<3, 4, 7>> ELSE <<5, 7, 12>>)

\* Variant of ChatChoice with the default finish_reason of the legacy mode.
ChatChoiceLength(item) ==
    [text |-> IF item.content \in {"absent", "null"} THEN "" ELSE item.content,
     finish_reason |-> IF item.finish_reason # "absent" THEN item.finish_reason ELSE "length"]

\* Lines 693-711: one choice of the chat response.
ChatChoice(item) ==
    [text |-> IF item.content \in {"absent", "null"} THEN "" ELSE item.content,
     finish_reason |-> IF item.finish_reason # "absent" THEN item.finish_reason ELSE "stop"]

\* non_stream_watsonx_completions, lines 666-746.
RespondChat(reply) ==
    IF reply.status = 0 \/ RaisesForStatus(reply.status)
    THEN UpstreamError(reply)
    ELSE LET choices == reply.body.list  \* watsonx_data.get("choices", [])
         IN  IF choices = <<>>
             THEN Success("chat.completion",
                          <<[text |-> "I understand your request and I'm here to help you.",
                             finish_reason |-> "stop"]>>,
                          <<0, 0, 0>>)
             ELSE Success("chat.completion",
                          [i \in 1 .. Len(choices) |-> ChatChoice(choices[i])],
                          <<0, 0, 0>>)

\* get_watsonx_models, lines 210-240: the catalog, or the HTTPException it
\* raises (404 for an upstream 404, 500 for a RequestException).
GetModels(reply) ==
    IF reply.status = 404
    THEN HttpError(404, <<"Watsonx Models API endpoint not found.">>)
    ELSE IF reply.status = 0 \/ RaisesForStatus(reply.status)
         THEN HttpError(500, <<"Error fetching models from Watsonx.ai: ", "request failed">>)
         ELSE Success("catalog", reply.body, <<>>)

\* Lines 248-259 and 297-308: the OpenAI form of one catalog resource.
ConvertModel(model) ==
    [id |-> model.model_id,
     object |-> "model",
     owned_by |-> <<model.provider, " / ", model.source>>,
     max_tokens |-> model.model_limits.max_output_tokens,
     token_limits |->
        [max_sequence_length |-> model.model_limits.max_sequence_length,
         max_output_tokens |-> model.model_limits.max_output_tokens]]

\* Variant of convert_watsonx_to_openai_format that lists a model id once,
\* with the limits of its last record.
DedupModels(resources) ==
    LET last(i) == CHOOSE j \in i .. Len(resources) :
                        /\ resources[j].model_id = resources[i].model_id
                        /\ \A l \in j + 1 .. Len(resources) :
                                resources[l].model_id # resources[i].model_id
        firsts == {i \in 1 .. Len(resources) :
                        \A j \in 1 .. i - 1 : resources[j].model_id # resources[i].model_id}
        nth(n) == CHOOSE i \in firsts : Cardinality({j \in firsts : j < i}) = n - 1
    IN  [n \in 1 .. Cardinality(firsts) |-> ConvertModel(resources[last(nth(n))])]

\* convert_watsonx_to_openai_format, lines 244-264: one descriptor per
\* resource, in the order of the upstream list.
ConvertModels(resources) ==
    [i \in 1 .. Len(resources) |-> ConvertModel(resources[i])]

\* fetch_models and fetch_model_by_id, lines 268-316.  `except Exception`
\* spans the whole body: it catches the HTTPException of get_watsonx_models,
\* the KeyError of a body without `resources` or of a resource without
\* `model_limits`, and the handler's own 404.
RespondCatalog(k, reply, model_id) ==
    LET models == GetModels(reply)
        wrap == IF k = "models" THEN "Error fetching models: "
                                ELSE "Error fetching model by ID: "
    IN  IF models.status # 200
        THEN HttpError(500, <<wrap, models.detail>>)
        ELSE IF models.choices.key = "missing"
             THEN HttpError(500, <<wrap, <<"'resources'">> >>)
             ELSE LET resources == models.choices.list
                      found == {i \in 1 .. Len(resources) : resources[i].model_id = model_id}
                      first == CHOOSE i \in found : \A j \in found : i <= j
                      converted == IF k = "models"
                                   THEN 1 .. Len(resources)
                                   ELSE IF found = {} THEN {} ELSE {first}
                  IN  IF \E i \in converted : resources[i].model_limits.key = "missing"
                      THEN HttpError(500, <<wrap, <<"'model_limits'">> >>)
                      ELSE IF k = "models"
                           THEN Success("list", ConvertModels(resources), <<>>)
                           ELSE IF found # {}
                                THEN Success("list", <<ConvertModel(resources[first])>>, <<>>)
                                ELSE HttpError(500, <<wrap, <<"404: Model with ID ", model_id, " not found.">> >>)

\* What the handler of endpoint k answers to the upstream answer `reply`.
Respond(k, reply, model_id) ==
    CASE k = "completions" -> RespondLegacy(reply)
      [] k \in {"chat", "n8n"} -> RespondChat(reply)
      [] OTHER -> RespondCatalog(k, reply, model_id)

\* A POST handler runs: `request_data = await request.json()` and the
\* parameter extraction that follows it, up to the call of get_iam_token.
\* A body that is not JSON is answered 400; a JSON body that is no object
\* has no .get and the unhandled AttributeError is answered 500.
\* A list with a non-string element makes " ".join raise a TypeError,
\* unhandled as well.
ParseOn(r, k, body, prompt) ==
    /\ Turn(r)
    /\ IF Validate(k, body, prompt) # NoResponse
       THEN Answer(r, Validate(k, body, prompt).status)
       ELSE /\ pc' = [pc EXCEPT ![r] = "iam"]
            /\ kind' = [kind EXCEPT ![r] = k]
            /\ loop' = r
            /\ UNCHANGED <<status, current_time, iam_token, tokenReal>>
    /\ UNCHANGED <<relayVars, now, cacheVars, iam_log, upCalls>>

\* The requests a POST endpoint may get; `prompt` is read by the legacy
\* handler only, and only of a JSON object.
ParseInputs ==
    {in \in PostKinds \X BodyShapes \X PromptShapes :
        (in[1] = "completions" /\ in[2] = "object") \/ in[3] = "absent"}

Parse(r) ==
    /\ \E in \in ParseInputs : ParseOn(r, in[1], in[2], in[3])
    /\ UNCHANGED traceVars

\* Parse, observed: the request and the answer, if any, are recorded.
ParseTraced(r) ==
    /\ request_data = NoRequest
    /\ \E in \in ParseInputs :
        /\ ParseOn(r, in[1], in[2], in[3])
        /\ request_data' =
              [r |-> r, k |-> in[1], body |-> in[2], prompt |-> in[3],
               model_id |-> "none",
               input |-> IF in[1] = "completions" /\ Validate(in[1], in[2], in[3]) = NoResponse
                         THEN PromptInput(in[3])
                         ELSE <<>>]
        /\ openai_response' = Validate(in[1], in[2], in[3])
    /\ UNCHANGED <<watsonx_data, payloadVars>>

\* A GET handler runs: fetch_models / fetch_model_by_id call
\* get_watsonx_models, which calls get_iam_token first.
StartOn(r, k) ==
    /\ Turn(r)
    /\ kind' = [kind EXCEPT ![r] = k]
    /\ pc' = [pc EXCEPT ![r] = "iam"]
    /\ loop' = r
    /\ UNCHANGED <<relayVars, now, cacheVars, current_time, iam_token, tokenReal,
                   iam_log, status, upCalls>>

Start(r) ==
    /\ \E k \in GetKinds : StartOn(r, k)
    /\ UNCHANGED traceVars

\* Start, observed: the endpoint and the model id of the path are recorded.
StartTraced(r) ==
    /\ request_data = NoRequest
    /\ \E k \in GetKinds, id \in ModelIds :
        /\ StartOn(r, k)
        /\ request_data' =
              [r |-> r, k |-> k, body |-> "none", prompt |-> "absent",
               model_id |-> IF k = "model_by_id" THEN id ELSE "none", input |-> <<>>]
    /\ UNCHANGED <<watsonx_data, openai_response, payloadVars>>

\* get_iam_token, lines 100-117: read the clock, return the cached token
\* when it is still valid, otherwise send the credential exchange.
IamBegin(r) ==
    /\ pc[r] = "iam"
    /\ loop = r
    /\ IF CacheValid(cached_token, token_expiration, now)
       THEN /\ iam_token' = [iam_token EXCEPT ![r] = cached_token]
            /\ tokenReal' = [tokenReal EXCEPT ![r] = cachedReal]
            /\ iam_log' = [iam_log EXCEPT ![r] = "cached"]
            /\ pc' = [pc EXCEPT ![r] = "call"]
            /\ UNCHANGED <<current_time, idCalls>>
       ELSE /\ current_time' = [current_time EXCEPT ![r] = now]
            /\ iam_log' = [iam_log EXCEPT ![r] = "fetching"]
            /\ idCalls' = idCalls + 1
            /\ pc' = [pc EXCEPT ![r] = "iam_post"]
            /\ UNCHANGED <<iam_token, tokenReal>>
    /\ UNCHANGED <<traceVars, relayVars, now, cached_token, token_expiration, issued, cachedReal,
                   lastWrite, expires_in, loop, kind, status, upCalls>>

\* Variant of IamFail that logs the error and returns None instead of
\* raising, so the handler goes on without a token.
IamFailReturnsNone(r) ==
    /\ pc[r] = "iam_post"
    /\ loop = r
    /\ iam_log' = [iam_log EXCEPT ![r] = "error"]
    /\ pc' = [pc EXCEPT ![r] = "call"]
    /\ current_time' = [current_time EXCEPT ![r] = 0]
    /\ UNCHANGED <<traceVars, relayVars, now, cacheVars, loop, kind, iam_token, tokenReal, status,
                   upCalls>>

\* Variant of IamFail that sends the credential exchange again instead of
\* raising.
IamFailRetries(r) ==
    /\ pc[r] = "iam_post"
    /\ loop = r
    /\ iam_log' = [iam_log EXCEPT ![r] = "error"]
    /\ idCalls' = idCalls + 1
    /\ UNCHANGED <<traceVars, relayVars, now, cached_token, token_expiration, issued,
                   cachedReal, lastWrite, expires_in, loop, pc, kind, current_time,
                   iam_token, tokenReal, status, upCalls>>

\* Variant of IamFail that resets the cache in the except branch.
IamFailClearsCache(r) ==
    /\ pc[r] = "iam_post"
    /\ loop = r
    /\ iam_log' = [iam_log EXCEPT ![r] = "error"]
    /\ cached_token' = NoToken
    /\ token_expiration' = 0
    /\ Answer(r, 500)
    /\ UNCHANGED <<traceVars, relayVars, now, issued, cachedReal, lastWrite, idCalls,
                   expires_in, upCalls>>

\* get_iam_token, lines 109-129: the identity endpoint is unreachable or
\* answers a non-success status: RequestException -> HTTPException(500).
IamFail(r) ==
    /\ pc[r] = "iam_post"
    /\ loop = r
    /\ iam_log' = [iam_log EXCEPT ![r] = "error"]
    /\ Answer(r, 500)
    /\ UNCHANGED <<traceVars, relayVars, now, cacheVars, upCalls>>

\* get_iam_token, lines 109-126: the identity endpoint answers 2xx.  The
\* statements run in program order: response.json(), then
\* cached_token = token_data["access_token"], then
\* expires_in = token_data["expires_in"], then token_expiration = ...
\* An exception leaves what was assigned before it.  The token was minted
\* at some time between the call and its return and lives `life` seconds.
IamAnswer(r) ==
    /\ pc[r] = "iam_post"
    /\ loop = r
    /\ \E shape \in IamShapes, life \in Lifetimes, mintedAt \in {current_time[r], now} :
        \/ /\ shape = "full"
           /\ issued' = issued + 1
           /\ cachedReal' = mintedAt + life
           /\ cached_token' = issued + 1
           /\ token_expiration' = TokenExpiry(current_time[r], life)
           /\ lastWrite' = <<issued + 1, TokenExpiry(current_time[r], life)>>
           /\ expires_in' = life
           /\ iam_token' = [iam_token EXCEPT ![r] = issued + 1]
           /\ tokenReal' = [tokenReal EXCEPT ![r] = mintedAt + life]
           /\ iam_log' = [iam_log EXCEPT ![r] = "fetched"]
           /\ pc' = [pc EXCEPT ![r] = "call"]
           /\ current_time' = [current_time EXCEPT ![r] = 0]
           /\ UNCHANGED <<loop, kind, status>>
        \/ /\ shape = "no_expires_in"
           /\ issued' = issued + 1
           /\ cachedReal' = mintedAt + life
           /\ cached_token' = issued + 1
           /\ iam_log' = [iam_log EXCEPT ![r] = "crash"]
           /\ Answer(r, 500)
           /\ UNCHANGED <<token_expiration, lastWrite, expires_in>>
        \/ /\ shape \in {"no_access_token", "not_json"}
           /\ iam_log' = [iam_log EXCEPT ![r] = IF shape = "not_json" THEN "error" ELSE "crash"]
           /\ Answer(r, 500)
           /\ UNCHANGED <<cached_token, token_expiration, issued, cachedReal,
                          lastWrite, expires_in>>
    /\ UNCHANGED <<traceVars, relayVars, now, idCalls, upCalls>>

\* The buffered upstream call: requests.post / requests.get with the token,
\* the translation of the answer, and the HTTP response.
CallUpstreamOn(r, reply, model_id) ==
    /\ pc[r] = "call"
    /\ loop = r
    /\ upCalls' = [upCalls EXCEPT ![r] = upCalls[r] + 1]
    /\ Answer(r, Respond(kind[r], reply, model_id).status)
    /\ UNCHANGED <<relayVars, now, cacheVars, iam_log>>

\* Upstream answers of endpoint k, one for each status the handler may
\* answer with.
DistinctReplies ==
    [k \in Kinds |->
        LET all == Replies(k) \X ModelIds
            code(x) == Respond(k, x[1], x[2]).status
        IN  {CHOOSE x \in all : code(x) = c : c \in {code(x) : x \in all}}]

CallUpstream(r) ==
    /\ pc[r] = "call"
    /\ \E x \in DistinctReplies[kind[r]] : CallUpstreamOn(r, x[1], x[2])
    /\ UNCHANGED traceVars

\* CallUpstream, observed: the upstream answer and the response are
\* recorded.
CallUpstreamTraced(r) ==
    /\ request_data.r = r
    /\ \E reply \in Replies(kind[r]) :
        /\ CallUpstreamOn(r, reply, request_data.model_id)
        /\ watsonx_data' = reply
        /\ openai_response' = Respond(kind[r], reply, request_data.model_id)
    /\ UNCHANGED <<request_data, payloadVars>>

\* stream=true on a chat endpoint: the handler returns a StreamingResponse
\* around the relay generator, which keeps the payload and the headers
\* (with the token); the response starts with status 200.
ReturnStream(r) ==
    /\ pc[r] = "call"
    /\ loop = r
    /\ kind[r] \in {"chat", "n8n"}
    /\ status' = [status EXCEPT ![r] = 200]
    /\ pc' = [pc EXCEPT ![r] = "relay"]
    /\ loop' = 0
    /\ UNCHANGED <<traceVars, relayVars, now, cacheVars, kind, current_time, iam_token, tokenReal,
                   iam_log, upCalls>>

Next ==
    \/ Tick
    \/ \E r \in Reqs : Parse(r)
    \/ \E r \in Reqs : Start(r)
    \/ \E r \in Reqs : IamBegin(r)
    \/ \E r \in Reqs : IamFail(r)
    \/ \E r \in Reqs : IamAnswer(r)
    \/ \E r \in Reqs : CallUpstream(r)
    \/ \E r \in Reqs : ReturnStream(r)

Spec ==
    Init /\ [][Next]_vars

\* One handler run observed from the first request on.
HandlerNext ==
    \/ \E r \in Reqs : ParseTraced(r)
    \/ \E r \in Reqs : StartTraced(r)
    \/ \E r \in Reqs : IamBegin(r)
    \/ \E r \in Reqs : IamFail(r)
    \/ \E r \in Reqs : IamAnswer(r)
    \/ \E r \in Reqs : CallUpstreamTraced(r)
    \/ \E r \in Reqs : ReturnStream(r)

HandlerSpec ==
    Init /\ [][HandlerNext]_vars

(***************************************************************************)
(* The translation of an inbound request into the upstream payload and     *)
(* headers.  Numbers are written as strings; a field that a JSON object    *)
(* does not have is "absent" in the request, and is no key of a payload.   *)
(***************************************************************************)
ProjectId ==
    "PROJECT_ID"

DefaultModel ==
    "ibm/granite-20b-multilingual"

\* The POST routes and the handler each one runs:
\* /v1/chat/chat/completions awaits the chat handler.
Paths ==
    {"/v1/completions", "/v1/chat/completions", "/v1/chat/chat/completions",
     "/v1/n8n/chat/completions"}

HandlerOf(path) ==
    CASE path = "/v1/completions" -> "completions"
      [] path = "/v1/chat/completions" -> "chat"
      [] path = "/v1/chat/chat/completions" -> "chat"
      [] path = "/v1/n8n/chat/completions" -> "n8n"

\* dict.get(key, default)
Get(value, default) ==
    IF value = "absent" THEN default ELSE value

\* Python truthiness of an optional value (`if stop:`).
Given(value) ==
    value \notin {"absent", "null", "empty"}

MessageLists ==
    LET system == [role |-> "system", content |-> "be brief"]
        user == [role |-> "user", content |-> "hi"]
    IN  {<<>>, <<user>>, <<system, user>>, <<user, system>>}

\* The tool-calling fields a client may send, at most one of them here.
ToolFields ==
    {t \in [tools : {"absent", "given"}, functions : {"absent", "given"},
            tool_choice : {"absent", "given"}, function_call : {"absent", "given"}] :
        Cardinality({f \in DOMAIN t : t[f] = "given"}) <= 1}

NoTools ==
    [tools |-> "absent", functions |-> "absent", tool_choice |-> "absent",
     function_call |-> "absent"]

\* The JSON objects a caller may post to the handler h.
JsonObjects(h) ==
    {j \in [messages : [key : {"present"}, list : MessageLists]
                          \cup {[key |-> "missing", list |-> <<>>]},
            prompt : {"absent", "string", "list_of_strings"},
            model : {"absent", "meta/llama"},
            max_tokens : {"absent", "64"},
            temperature : {"absent", "0.9"},
            top_p : {"absent", "0.5"},
            presence_penalty : {"absent", "1.5"},
            seed : {"absent", "42"},
            stop : {"absent", "empty", "given"},
            logit_bias : {"absent", "given"},
            tooling : ToolFields] :
        IF h = "completions" THEN j.messages.key = "missing" ELSE j.prompt = "absent"}

\* The inbound requests: route, JSON body and the caller's Authorization
\* header.
Requests ==
    UNION {[path : {p}, json : JsonObjects(HandlerOf(p)),
            authorization : {"absent", "Bearer sk-caller"}] : p \in Paths}

\* Lines 390-393, 808-811: the optional parameters, added when truthy.
Optional(json, stopKey) ==
    LET withStop == IF Given(json.stop) THEN stopKey :> json.stop ELSE <<>>
    IN  IF Given(json.logit_bias)
        THEN withStop @@ ("logit_bias" :> json.logit_bias)
        ELSE withStop

\* Lines 330-353, 374-393: the payload of the legacy handler.
LegacyPayload(json) ==
    [input |-> PromptInput(json.prompt),
     parameters |->
        [decoding_method |-> "sample",
         max_new_tokens |-> Get(json.max_tokens, "2000"),
         temperature |-> Get(json.temperature, "0.2"),
         top_k |-> "50",
         top_p |-> Get(json.top_p, "1"),
         random_seed |-> Get(json.seed, "null"),
         repetition_penalty |-> Get(json.presence_penalty, "1")]
            @@ Optional(json, "stop_sequences"),
     model_id |-> Get(json.model, DefaultModel),
     project_id |-> ProjectId]

\* Lines 759-774, 795-811: the payload of the chat handler.
ChatPayload(json) ==
    [messages |-> json.messages.list,
     seed |-> Get(json.seed, "null"),
     frequency_penalty |-> Get(json.presence_penalty, "1"),
     model_id |-> Get(json.model, DefaultModel),
     project_id |-> ProjectId,
     max_tokens |-> Get(json.max_tokens, "2000"),
     temperature |-> Get(json.temperature, "0.2"),
     top_p |-> Get(json.top_p, "1")]
        @@ Optional(json, "stop")

\* Lines 908-913, 926-933: the payload of the n8n handler.
N8nPayload(json) ==
    [messages |-> json.messages.list,
     model_id |-> Get(json.model, DefaultModel),
     project_id |-> ProjectId,
     max_tokens |-> Get(json.max_tokens, "2000"),
     temperature |-> Get(json.temperature, "0.7"),
     top_p |-> Get(json.top_p, "1")]

\* Variant of Payload that forwards the tool-calling fields it finds.
PayloadWithTools(h, json) ==
    LET base == CASE h = "completions" -> LegacyPayload(json)
                  [] h = "chat" -> ChatPayload(json)
                  [] h = "n8n" -> N8nPayload(json)
    IN  IF json.tooling = NoTools THEN base ELSE base @@ ("tools" :> json.tooling)

Payload(h, json) ==
    CASE h = "completions" -> LegacyPayload(json)
      [] h = "chat" -> ChatPayload(json)
      [] h = "n8n" -> N8nPayload(json)

\* Lines 399-403, 817-821, 935-939: the upstream headers.
Headers(token) ==
    [Authorization |-> <<"Bearer", token>>, ContentType |-> "application/json",
     Accept |-> "application/json"]

\* The state after the handler of request 1 parsed the body of an inbound
\* request and get_iam_token returned it a fresh token.
InitPayload ==
    /\ now = StartTime
    /\ cached_token = 1
    /\ token_expiration = StartTime + 3600 - SafetyMargin
    /\ issued = 1
    /\ cachedReal = StartTime + 3600
    /\ lastWrite = <<1, StartTime + 3600 - SafetyMargin>>
    /\ idCalls = 1
    /\ expires_in = 3600
    /\ loop = 1
    /\ request \in Requests
    /\ pc = [r \in Reqs |-> IF r = 1 THEN "call" ELSE "wait"]
    /\ kind = [r \in Reqs |-> IF r = 1 THEN HandlerOf(request.path) ELSE "none"]
    /\ current_time = [r \in Reqs |-> 0]
    /\ iam_token = [r \in Reqs |-> IF r = 1 THEN 1 ELSE NoToken]
    /\ tokenReal = [r \in Reqs |-> IF r = 1 THEN StartTime + 3600 ELSE 0]
    /\ iam_log = [r \in Reqs |-> IF r = 1 THEN "fetched" ELSE "none"]
    /\ status = [r \in Reqs |-> 0]
    /\ upCalls = [r \in Reqs |-> 0]
    /\ sent = [r \in Reqs |-> <<>>]
    /\ lines = [r \in Reqs |-> <<>>]
    /\ acc = [r \in Reqs |-> <<>>]
    /\ out = [r \in Reqs |-> <<>>]
    /\ failure = [r \in Reqs |-> "none"]
    /\ request_data = NoRequest
    /\ watsonx_data = NoReply
    /\ openai_response = NoResponse
    /\ watsonx_payload = NoPayload
    /\ headers = NoHeaders

\* Variant of Translate that passes the caller's Authorization header on
\* when there is one.
TranslateForwardingKey(r) ==
    /\ pc[r] = "call"
    /\ loop = r
    /\ watsonx_payload = NoPayload
    /\ watsonx_payload' = Payload(kind[r], request.json)
    /\ headers' = IF request.authorization = "absent"
                  THEN Headers(iam_token[r])
                  ELSE [Headers(iam_token[r]) EXCEPT
                            !.Authorization = <<request.authorization, 0>>]
    /\ UNCHANGED <<relayVars, cacheVars, now, loop, pc, kind, current_time, iam_token, tokenReal,
                   iam_log, status, upCalls, request_data, watsonx_data, openai_response,
                   request>>

\* The handler builds watsonx_payload and headers from the parsed body and
\* the token (lines 374-403, 795-821, 926-939).
Translate(r) ==
    /\ pc[r] = "call"
    /\ loop = r
    /\ watsonx_payload = NoPayload
    /\ watsonx_payload' = Payload(kind[r], request.json)
    /\ headers' = Headers(iam_token[r])
    /\ UNCHANGED <<relayVars, cacheVars, now, loop, pc, kind, current_time, iam_token, tokenReal,
                   iam_log, status, upCalls, request_data, watsonx_data, openai_response,
                   request>>

PayloadNext ==
    \E r \in Reqs : Translate(r)

PayloadSpec ==
    InitPayload /\ [][PayloadNext]_vars



(***************************************************************************)
(* stream_watsonx_completions: the relay generator                         *)
(*                                                                         *)
(* Text is a sequence of fragments, so that accumulating is concatenation  *)
(* and the empty string is <<>>.  An upstream event line is a record       *)
(* [k, c]: k is what the line is, c the content it carries.                *)
(*   delta, message  data: {"choices": [{"delta" | "message": {content}}]} *)
(*   done            data: [DONE]                                          *)
(*   malformed       data: <not JSON>         (json.JSONDecodeError)       *)
(*   bad_shape       data: <JSON that is no event object, as [] or         *)
(*                   {"choices": [7]}>        (AttributeError, TypeError)  *)
(*   no_choice       data: <object without choices, or a choice without    *)
(*                   message and delta>                                    *)
(*   not_data        a line that does not start with data:                 *)
(*   head            the first part of an event line whose rest is in the  *)
(*                   next network chunk: not JSON, or no data: line        *)
(***************************************************************************)
Placeholder ==
    <<"I understand your request.">>

\* The text of the error chunk of each except branch.
ErrorText(exc) ==
    CASE exc = "read_timeout" ->
           <<"I apologize, but I'm having trouble processing your request right now. Please try again.">>
      [] exc = "http_status" ->
           <<"I encountered an error while processing your request. Please try again later.">>
      [] OTHER ->
           <<"An unexpected error occurred. Please try again.">>

\* httpx exceptions of the upstream call: ReadTimeout, HTTPStatusError
\* (raise_for_status), any other transport error.
TransportFailures ==
    {"read_timeout", "http_status", "transport"}

ContentEvents ==
    {[k |-> "delta", c |-> <<"He">>],
     [k |-> "message", c |-> <<"llo">>],
     [k |-> "delta", c |-> <<>>]}

OtherEvents ==
    {[k |-> x, c |-> <<>>] : x \in {"done", "malformed", "bad_shape", "no_choice", "not_data"}}

Events ==
    ContentEvents \cup OtherEvents

\* The network chunks aiter_bytes may yield: one to MaxChunkLines lines.
Chunks ==
    UNION {[1 .. n -> Events] : n \in 1 .. MaxChunkLines}

\* How a network chunk ends: after a whole line, inside a line, or inside a
\* multi-byte character (chunk.decode('utf-8') raises).  The line
\* data: [DONE] has no multi-byte character.
Cuts(chunk) ==
    IF chunk[Len(chunk)].k = "done" THEN {"none", "line"} ELSE {"none", "line", "char"}

\* What the relay yields.  `id` tells the chunks that carry response_id
\* from those that carry a uuid of their own.
InitChunk ==
    [delta |-> "role", content |-> <<>>, finish_reason |-> "null", id |-> "response_id"]

ContentChunk(c) ==
    [delta |-> "content", content |-> c, finish_reason |-> "null", id |-> "response_id"]

StopChunk ==
    [delta |-> "empty", content |-> <<>>, finish_reason |-> "stop", id |-> "response_id"]

ErrorChunk(exc) ==
    [delta |-> "content", content |-> ErrorText(exc), finish_reason |-> "stop", id |-> "own_uuid"]

Terminator ==
    [delta |-> "DONE", content |-> <<>>, finish_reason |-> "none", id |-> "none"]

\* The lines the relay sees of a chunk that ends with the given cut.
SeenLines(chunk, cut) ==
    IF cut = "line"
    THEN [i \in 1 .. Len(chunk) |->
            IF i = Len(chunk) THEN [k |-> "head", c |-> <<>>] ELSE chunk[i]]
    ELSE chunk

\* The state after request 1 got a token and its handler returned the
\* StreamingResponse: the generator has not run yet.
InitRelay ==
    /\ now = StartTime
    /\ cached_token = 1
    /\ token_expiration = StartTime + 3600 - SafetyMargin
    /\ issued = 1
    /\ cachedReal = StartTime + 3600
    /\ lastWrite = <<1, StartTime + 3600 - SafetyMargin>>
    /\ idCalls = 1
    /\ expires_in = 3600
    /\ loop = 0
    /\ pc = [r \in Reqs |-> IF r = 1 THEN "relay" ELSE "wait"]
    /\ kind \in {[r \in Reqs |-> IF r = 1 THEN k ELSE "none"] : k \in {"chat", "n8n"}}
    /\ current_time = [r \in Reqs |-> 0]
    /\ iam_token = [r \in Reqs |-> IF r = 1 THEN 1 ELSE NoToken]
    /\ tokenReal = [r \in Reqs |-> IF r = 1 THEN StartTime + 3600 ELSE 0]
    /\ iam_log = [r \in Reqs |-> IF r = 1 THEN "fetched" ELSE "none"]
    /\ status = [r \in Reqs |-> IF r = 1 THEN 200 ELSE 0]
    /\ upCalls = [r \in Reqs |-> 0]
    /\ sent = [r \in Reqs |-> <<>>]
    /\ lines = [r \in Reqs |-> <<>>]
    /\ acc = [r \in Reqs |-> <<>>]
    /\ out = [r \in Reqs |-> <<>>]
    /\ failure = [r \in Reqs |-> "none"]
    /\ request_data = NoRequest
    /\ watsonx_data = NoReply
    /\ openai_response = NoResponse
    /\ request = NoInbound
    /\ watsonx_payload = NoPayload
    /\ headers = NoHeaders

handlerVars ==
    <<now, cacheVars, loop, kind, current_time, iam_token, tokenReal, iam_log,
      status, traceVars>>

\* Variant of Raise without the except branches: the exception leaves the
\* generator and the response breaks off.
RaiseUncaught(r, exc) ==
    /\ failure' = [failure EXCEPT ![r] = exc]
    /\ lines' = [lines EXCEPT ![r] = <<>>]
    /\ pc' = [pc EXCEPT ![r] = "closed"]
    /\ UNCHANGED out

\* An exception inside the try block (lines 605-664): the except branch
\* yields one error chunk and is left to yield the terminator.
Raise(r, exc) ==
    /\ failure' = [failure EXCEPT ![r] = exc]
    /\ lines' = [lines EXCEPT ![r] = <<>>]
    /\ out' = [out EXCEPT ![r] = Append(out[r], ErrorChunk(exc))]
    /\ pc' = [pc EXCEPT ![r] = "term"]

\* Lines 459-491: the POST to the streaming endpoint, raise_for_status and
\* the first yield, the role-establishing chunk.
StreamPost(r) ==
    /\ pc[r] = "relay"
    /\ loop = 0
    /\ upCalls' = [upCalls EXCEPT ![r] = upCalls[r] + 1]
    /\ \/ /\ out' = [out EXCEPT ![r] = Append(out[r], InitChunk)]
          /\ pc' = [pc EXCEPT ![r] = "streaming"]
          /\ UNCHANGED <<failure, lines>>
       \/ \E exc \in TransportFailures : Raise(r, exc)
    /\ UNCHANGED <<handlerVars, sent, acc>>

\* Line 496: aiter_bytes yields the next network chunk; line 497 decodes it.
RecvChunk(r) ==
    /\ pc[r] = "streaming"
    /\ loop = 0
    /\ lines[r] = <<>>
    /\ \E chunk \in Chunks : \E cut \in Cuts(chunk) :
        /\ Len(sent[r]) + Len(chunk) <= MaxEvents
        /\ sent' = [sent EXCEPT ![r] = sent[r] \o
               [i \in 1 .. Len(chunk) |->
                   [ev |-> chunk[i], whole |-> (i < Len(chunk) \/ cut = "none")]]]
        /\ IF cut = "char"
           THEN Raise(r, "processing")
           ELSE /\ lines' = [lines EXCEPT ![r] = SeenLines(chunk, cut)]
                /\ UNCHANGED <<pc, out, failure>>
    /\ UNCHANGED <<handlerVars, upCalls, acc>>

\* Line 496: the read of the next network chunk times out or breaks.
RecvFail(r) ==
    /\ pc[r] = "streaming"
    /\ loop = 0
    /\ lines[r] = <<>>
    /\ \E exc \in {"read_timeout", "transport"} : Raise(r, exc)
    /\ UNCHANGED <<handlerVars, upCalls, sent, acc>>

\* Variant of ProcLine without line 540: the content is relayed but not
\* accumulated.
ProcLineNoAccumulate(r) ==
    /\ pc[r] = "streaming"
    /\ loop = 0
    /\ lines[r] # <<>>
    /\ LET l == Head(lines[r]) IN
        \/ /\ l.k = "done"
           /\ out' = [out EXCEPT ![r] = Append(out[r], StopChunk)]
           /\ pc' = [pc EXCEPT ![r] = "term"]
           /\ lines' = [lines EXCEPT ![r] = <<>>]
           /\ UNCHANGED <<acc, failure>>
        \/ /\ l.k \in {"delta", "message"}
           /\ l.c # <<>>
           /\ out' = [out EXCEPT ![r] = Append(out[r], ContentChunk(l.c))]
           /\ lines' = [lines EXCEPT ![r] = Tail(lines[r])]
           /\ UNCHANGED <<pc, acc, failure>>
        \/ /\ \/ l.k \in {"delta", "message"} /\ l.c = <<>>
              \/ l.k \in {"malformed", "no_choice", "not_data", "head"}
           /\ lines' = [lines EXCEPT ![r] = Tail(lines[r])]
           /\ UNCHANGED <<pc, acc, out, failure>>
        \/ /\ l.k = "bad_shape"
           /\ Raise(r, "processing")
           /\ UNCHANGED acc
    /\ UNCHANGED <<handlerVars, upCalls, sent>>

\* Lines 501-564: one line of the chunk.
ProcLine(r) ==
    /\ pc[r] = "streaming"
    /\ loop = 0
    /\ lines[r] # <<>>
    /\ LET l == Head(lines[r]) IN
        \/ /\ l.k = "done"
           /\ out' = [out EXCEPT ![r] = Append(out[r], StopChunk)]
           /\ pc' = [pc EXCEPT ![r] = "term"]
           /\ lines' = [lines EXCEPT ![r] = <<>>]
           /\ UNCHANGED <<acc, failure>>
        \/ /\ l.k \in {"delta", "message"}
           /\ l.c # <<>>
           /\ acc' = [acc EXCEPT ![r] = acc[r] \o l.c]
           /\ out' = [out EXCEPT ![r] = Append(out[r], ContentChunk(l.c))]
           /\ lines' = [lines EXCEPT ![r] = Tail(lines[r])]
           /\ UNCHANGED <<pc, failure>>
        \/ /\ \/ l.k \in {"delta", "message"} /\ l.c = <<>>
              \/ l.k \in {"malformed", "no_choice", "not_data", "head"}
           /\ lines' = [lines EXCEPT ![r] = Tail(lines[r])]
           /\ UNCHANGED <<pc, acc, out, failure>>
        \/ /\ l.k = "bad_shape"
           /\ Raise(r, "processing")
           /\ UNCHANGED acc
    /\ UNCHANGED <<handlerVars, upCalls, sent>>

\* Variant of EndOfStream without line 603: after relayed content the
\* generator just ends.
EndOfStreamSilent(r) ==
    /\ pc[r] = "streaming"
    /\ loop = 0
    /\ lines[r] = <<>>
    /\ IF acc[r] = <<>>
       THEN /\ out' = [out EXCEPT ![r] = Append(out[r], ContentChunk(Placeholder))]
            /\ pc' = [pc EXCEPT ![r] = "fb_stop"]
       ELSE /\ out' = out
            /\ pc' = [pc EXCEPT ![r] = "closed"]
    /\ UNCHANGED <<handlerVars, upCalls, sent, lines, acc, failure>>

\* Lines 566-603: the upstream response has ended.
EndOfStream(r) ==
    /\ pc[r] = "streaming"
    /\ loop = 0
    /\ lines[r] = <<>>
    /\ IF acc[r] = <<>>
       THEN /\ out' = [out EXCEPT ![r] = Append(out[r], ContentChunk(Placeholder))]
            /\ pc' = [pc EXCEPT ![r] = "fb_stop"]
       ELSE /\ out' = [out EXCEPT ![r] = Append(out[r], Terminator)]
            /\ pc' = [pc EXCEPT ![r] = "closed"]
    /\ UNCHANGED <<handlerVars, upCalls, sent, lines, acc, failure>>

\* Lines 586-601: the stop chunk of the fallback.
FallbackStop(r) ==
    /\ pc[r] = "fb_stop"
    /\ loop = 0
    /\ out' = [out EXCEPT ![r] = Append(out[r], StopChunk)]
    /\ pc' = [pc EXCEPT ![r] = "term"]
    /\ UNCHANGED <<handlerVars, upCalls, sent, lines, acc, failure>>

\* `yield b"data: [DONE]\n\n"` (lines 522, 603, 623, 645, 664) and the end
\* of the generator.
Terminate(r) ==
    /\ pc[r] = "term"
    /\ loop = 0
    /\ out' = [out EXCEPT ![r] = Append(out[r], Terminator)]
    /\ pc' = [pc EXCEPT ![r] = "closed"]
    /\ UNCHANGED <<handlerVars, upCalls, sent, lines, acc, failure>>

NextRelay ==
    \/ \E r \in Reqs : StreamPost(r)
    \/ \E r \in Reqs : RecvChunk(r)
    \/ \E r \in Reqs : RecvFail(r)
    \/ \E r \in Reqs : ProcLine(r)
    \/ \E r \in Reqs : EndOfStream(r)
    \/ \E r \in Reqs : FallbackStop(r)
    \/ \E r \in Reqs : Terminate(r)

RelaySpec ==
    InitRelay /\ [][NextRelay]_vars

\* One step of the generator of request r.
RelayStep(r) ==
    \/ StreamPost(r)
    \/ RecvChunk(r)
    \/ RecvFail(r)
    \/ ProcLine(r)
    \/ EndOfStream(r)
    \/ FallbackStop(r)
    \/ Terminate(r)

\* The event loop keeps resuming the generator while the caller reads the
\* response, and the upstream stream ends, sends [DONE] or fails: a
\* generator that can take a step eventually takes one.
RelayFairSpec ==
    RelaySpec /\ \A r \in Reqs : WF_vars(RelayStep(r))

\* The generator is inside `async with httpx.AsyncClient(...)` (line 459):
\* the client and its upstream connection are open.
ClientOpen(r) ==
    pc[r] \in {"streaming", "fb_stop", "term"}

\* Variant of Cancel for `except BaseException`: the last except branch
\* catches the cancellation and yields its error chunk.
CancelCaught(r) ==
    /\ pc[r] \in {"relay", "streaming", "fb_stop", "term"}
    /\ loop = 0
    /\ Raise(r, "cancelled")
    /\ UNCHANGED <<handlerVars, upCalls, sent, acc>>

\* The caller disconnects while the response is streamed: the server
\* cancels the response and the generator gets CancelledError or
\* GeneratorExit where it is suspended.  Neither is an Exception, so no
\* except branch of lines 605-664 runs; the exception leaves the `async
\* with` block, which closes the client, and the generator is finished.
Cancel(r) ==
    /\ pc[r] \in {"relay", "streaming", "fb_stop", "term"}
    /\ loop = 0
    /\ failure' = [failure EXCEPT ![r] = "cancelled"]
    /\ lines' = [lines EXCEPT ![r] = <<>>]
    /\ pc' = [pc EXCEPT ![r] = "cancelled"]
    /\ UNCHANGED <<handlerVars, upCalls, sent, acc, out>>

\* The relay with callers that may disconnect.
CancelNext ==
    \/ NextRelay
    \/ \E r \in Reqs : Cancel(r)

CancelSpec ==
    InitRelay /\ [][CancelNext]_vars

\* One request from its arrival to the end of its response, buffered or
\* streamed: the observed handler run followed by the relay generator.
ServeNext ==
    \/ HandlerNext
    \/ NextRelay

ServeSpec ==
    Init /\ [][ServeNext]_vars

(***************************************************************************)
(* Token cache: claims                                                     *)
(***************************************************************************)
\* The requests whose get_iam_token call sent a credential exchange.
Exchangers ==
    {r \in Reqs : iam_log[r] \in {"fetching", "fetched", "error", "crash"}}

\* C1: a get_iam_token call made while a token is cached and
\* now < token_expiration returns that token, leaves the cache alone and
\* sends nothing to the identity endpoint; the identity calls made in total
\* are those of the calls that missed the cache, so a fetch and a later call
\* in the same validity window make one network call together.
C1_CacheHit ==
    /\ [][\A r \in Reqs :
            (/\ pc[r] = "iam"
             /\ pc'[r] # "iam"
             /\ cached_token # NoToken
             /\ now < token_expiration)
            => /\ pc'[r] = "call"
               /\ iam_token'[r] = cached_token
               /\ idCalls' = idCalls
               /\ cached_token' = cached_token
               /\ token_expiration' = token_expiration]_vars
    /\ [](idCalls = Cardinality(Exchangers))

\* C1 witness: one request fetched the token, another was served the same
\* token from the cache, and one identity call was made in all.
C1_Witness ==
    \E r1, r2 \in Reqs :
        /\ iam_log[r1] = "fetched"
        /\ iam_log[r2] = "cached"
        /\ pc[r2] = "call"
        /\ iam_token[r2] = cached_token
        /\ idCalls = 1

\* C2: a get_iam_token call made with no cached token or with
\* now >= token_expiration sends one credential exchange; when the exchange
\* succeeds the cache holds the newly minted token with expiry
\* current_time + expires_in - 600, and the caller gets that token.
C2_Refresh ==
    [][\A r \in Reqs :
         /\ (/\ pc[r] = "iam"
             /\ pc'[r] # "iam"
             /\ (cached_token = NoToken \/ now >= token_expiration))
            => /\ pc'[r] = "iam_post"
               /\ idCalls' = idCalls + 1
               /\ current_time'[r] = now
         /\ (pc[r] = "iam_post" /\ iam_log'[r] = "fetched")
            => /\ issued' = issued + 1
               /\ cached_token' = issued'
               /\ token_expiration' = current_time[r] + expires_in' - 600
               /\ iam_token'[r] = issued'
               /\ idCalls' = idCalls
               /\ pc'[r] = "call"]_vars

\* C2 witness: a second token replaced an expired first one in the cache
\* and was handed to the request that refreshed it.
C2_Witness ==
    \E r \in Reqs :
        /\ iam_log[r] = "fetched"
        /\ pc[r] = "call"
        /\ issued = 2
        /\ idCalls = 2
        /\ iam_token[r] = 2
        /\ cached_token = 2
        /\ token_expiration > now

\* C3 as claimed: every token get_iam_token returns, from the cache or
\* freshly minted, is valid for at least 600 more seconds when returned.
C3_MarginAlways ==
    [][\A r \in Reqs :
         (pc[r] \in {"iam", "iam_post"} /\ pc'[r] = "call")
         => tokenReal'[r] - now' >= 600]_vars

\* C3 amended: a token returned from the cache is valid for at least 600
\* more seconds when returned; a freshly minted token is returned with at
\* least its upstream lifetime less the time the exchange call took.
C3_MarginOnCacheHit ==
    [][\A r \in Reqs :
         /\ (pc[r] = "iam" /\ pc'[r] = "call")
            => tokenReal'[r] - now' >= 600
         /\ (pc[r] = "iam_post" /\ pc'[r] = "call")
            => tokenReal'[r] - now' >= expires_in' - (now' - current_time[r])]_vars

\* C3 witness: a token fetched earlier is served from the cache at a later
\* time, with at least the margin left.
C3_Witness ==
    \E r \in Reqs :
        /\ iam_log[r] = "cached"
        /\ pc[r] = "call"
        /\ now > StartTime
        /\ tokenReal[r] - now >= 600

\* C4: in every state the cached token and the cached expiry are those
\* written by one successful credential exchange (or both initial), and a
\* caller served from the cache gets that exchange's token.
C4_NeverPartial ==
    /\ <<cached_token, token_expiration>> = lastWrite
    /\ \A r \in Reqs :
        (iam_log[r] = "cached" /\ pc[r] = "call") => iam_token[r] = lastWrite[1]

\* C5: the requests, all in flight when the first of them finds the cache
\* empty, either share one credential exchange or, once they have all
\* been through get_iam_token, leave in the cache the token and the expiry
\* of the last successful write.
C5_SingleFlight ==
    (/\ loop = 0
     /\ \A r \in Reqs : iam_log[r] # "none")
    => \/ idCalls <= 1
       \/ <<cached_token, token_expiration>> = lastWrite

\* C6: a request whose credential exchange failed (identity endpoint
\* unreachable or non-success status) is answered 500 at once and never
\* calls the upstream endpoint; only requests holding a token call it.
C6_AuthError ==
    /\ [][\A r \in Reqs :
            (pc[r] = "iam_post" /\ iam_log'[r] = "error")
            => /\ pc'[r] = "done"
               /\ status'[r] = 500
               /\ upCalls' = upCalls]_vars
    /\ [](\A r \in Reqs :
            /\ iam_log[r] = "error" => (pc[r] = "done" /\ status[r] = 500 /\ upCalls[r] = 0)
            /\ upCalls[r] > 0 => iam_log[r] \in {"cached", "fetched"})

\* C6 witness: one request failed to get a token and was answered 500
\* without an upstream call, while another one got through.
C6_Witness ==
    \E r1, r2 \in Reqs :
        /\ iam_log[r1] = "error"
        /\ status[r1] = 500
        /\ upCalls[r1] = 0
        /\ upCalls[r2] = 1

(***************************************************************************)
(* Stream relay: claims                                                    *)
(***************************************************************************)
\* The events of a sequence of sent lines.
EventsOf(ss) ==
    [i \in 1 .. Len(ss) |-> ss[i].ev]

\* The lines before the first data: [DONE] line.
RECURSIVE BeforeDone(_)
BeforeDone(es) ==
    IF es = <<>> \/ Head(es).k = "done"
    THEN <<>>
    ELSE <<Head(es)>> \o BeforeDone(Tail(es))

\* One content chunk per event that carries non-empty content, in order.
RECURSIVE ChunksOf(_)
ChunksOf(es) ==
    IF es = <<>>
    THEN <<>>
    ELSE (IF Head(es).k \in {"delta", "message"} /\ Head(es).c # <<>>
          THEN <<ContentChunk(Head(es).c)>>
          ELSE <<>>) \o ChunksOf(Tail(es))

IsContent(item) ==
    item.delta = "content"

\* The content chunks of an output that relay upstream content.
RelayedContent(o) ==
    SelectSeq(o, LAMBDA item : IsContent(item) /\ item.id = "response_id"
                                 /\ item.content # Placeholder)

\* The upstream sent whole lines only, and the transport did not fail.
Intact(r) ==
    /\ failure[r] \notin TransportFailures
    /\ \A i \in 1 .. Len(sent[r]) : sent[r][i].whole

ContentThenDone(es) ==
    /\ es # <<>>
    /\ es[Len(es)].k = "done"
    /\ \A i \in 1 .. Len(es) - 1 : es[i] \in ContentEvents

C8_MalformedSkipped ==
    \A r \in Reqs :
        (/\ Intact(r)
         /\ \E i \in 1 .. Len(sent[r]) : sent[r][i].ev.k \in {"malformed", "bad_shape"})
        => /\ failure[r] = "none"
           /\ \A i \in 1 .. Len(out[r]) : out[r][i].id # "own_uuid"
           /\ pc[r] = "closed"
                => RelayedContent(out[r]) = ChunksOf(BeforeDone(EventsOf(sent[r])))

\* No line of the stream is an event with content.
ZeroContent(es) ==
    \A i \in 1 .. Len(es) :
        \/ es[i].k \in {"done", "no_choice", "not_data"}
        \/ es[i].k \in {"delta", "message"} /\ es[i].c = <<>>

\* C9: whenever the upstream stream has carried no content event, whether
\* it ended with data: [DONE] or just ended, the finished relay has put out
\* the init chunk, one placeholder content chunk, one stop chunk and the
\* terminator.
C9_StreamFallback ==
    \A r \in Reqs :
        (/\ pc[r] = "closed"
         /\ Intact(r)
         /\ ZeroContent(EventsOf(sent[r])))
        => out[r] = <<InitChunk, ContentChunk(Placeholder), StopChunk, Terminator>>

ErrorTexts ==
    {ErrorText(exc) : exc \in TransportFailures \cup {"processing"}}

\* The positions of the output that hold a chunk with an error text.
ErrorPositions(o) ==
    {i \in 1 .. Len(o) : o[i].delta = "content" /\ o[i].content \in ErrorTexts}

TerminatorPositions(o) ==
    {i \in 1 .. Len(o) : o[i].delta = "DONE"}

\* C10: after a read timeout, an HTTP error or another transport failure of
\* the upstream call, before the first event or after some content chunks,
\* the response keeps its status 200, and the relay puts out exactly one
\* chunk that carries an error text and finish_reason "stop", then the
\* terminator as its last item; a finished relay puts out nothing more.
C10_StreamErrorTransition ==
    /\ [](\A r \in Reqs :
            failure[r] \in TransportFailures
            => /\ status[r] = 200
               /\ pc[r] \in {"term", "closed"}
               /\ \E i \in 1 .. Len(out[r]) :
                    /\ ErrorPositions(out[r]) = {i}
                    /\ out[r][i].finish_reason = "stop"
                    /\ out[r][i].content = ErrorText(failure[r])
                    /\ IF pc[r] = "term"
                       THEN i = Len(out[r]) /\ TerminatorPositions(out[r]) = {}
                       ELSE i + 1 = Len(out[r]) /\ TerminatorPositions(out[r]) = {i + 1})
    /\ [][\A r \in Reqs :
            pc[r] = "closed" => pc'[r] = "closed" /\ out'[r] = out[r]]_vars

\* A read timeout after the init chunk and a content chunk, answered by the
\* error chunk and the terminator.
C10_Witness ==
    \E r \in Reqs :
        /\ pc[r] = "closed"
        /\ failure[r] = "read_timeout"
        /\ Len(out[r]) = 4
        /\ out[r][1] = InitChunk
        /\ out[r][2] = ContentChunk(<<"He">>)
        /\ out[r][3] = ErrorChunk("read_timeout")
        /\ out[r][4] = Terminator

InitPositions(o) ==
    {i \in 1 .. Len(o) : o[i].delta = "role"}

\* C11: on every path, the error paths included, the first item a streamed
\* response puts out is the init chunk (role delta, empty content,
\* finish_reason null), and the init chunk is put out exactly once.
C11_InitChunkFirst ==
    \A r \in Reqs :
        out[r] # <<>> => out[r][1] = InitChunk /\ InitPositions(out[r]) = {1}

\* The relay has read a whole data: [DONE] line at position i of what the
\* upstream sent, and none before.
FirstDone(r, i) ==
    /\ i \in 1 .. Len(sent[r])
    /\ sent[r][i].ev.k = "done"
    /\ \A j \in 1 .. i - 1 : sent[r][j].ev.k # "done"

C13_StreamTerminates ==
    /\ \A r \in Reqs : (pc[r] = "relay") ~> (pc[r] = "closed")
    /\ [](\A r \in Reqs :
            pc[r] = "closed"
            => out[r] # <<>> /\ out[r][Len(out[r])] = Terminator)

\* A relay that finished at the end of the upstream stream, after content
\* and without [DONE] from upstream.
C13_Witness ==
    \E r \in Reqs :
        /\ pc[r] = "closed"
        /\ failure[r] = "none"
        /\ acc[r] # <<>>
        /\ \A i \in 1 .. Len(sent[r]) : sent[r][i].ev.k # "done"
        /\ out[r][Len(out[r])] = Terminator

(***************************************************************************)
(* Buffered handlers: claims                                               *)
(***************************************************************************)
\* The observed handler has received an upstream answer with an HTTP status.
Replied ==
    watsonx_data.status > 0

Is2xx(s) ==
    s >= 200 /\ s < 300

\* C14: a GET of a single model whose id is in no entry of the catalog the
\* upstream returned is answered with status 404.
C14_UnknownModelIs404 ==
    (/\ request_data.k = "model_by_id"
     /\ Replied
     /\ Is2xx(watsonx_data.status)
     /\ watsonx_data.body.key = "present"
     /\ \A i \in 1 .. Len(watsonx_data.body.list) :
            watsonx_data.body.list[i].model_id # request_data.model_id)
    => openai_response.status = 404

\* C15: when the upstream catalog call answers a status s outside 2xx, the
\* models endpoints answer with the same status s.
C15_CatalogErrorStatus ==
    (/\ request_data.k \in GetKinds
     /\ Replied
     /\ ~Is2xx(watsonx_data.status))
    => openai_response.status = watsonx_data.status

\* The error of a buffered call: the upstream status, the upstream body in
\* the detail, and no completion object.
MirrorsUpstreamError ==
    /\ openai_response.status = watsonx_data.status
    /\ openai_response.object = "error"
    /\ Len(openai_response.detail) = 2
    /\ openai_response.detail[2] = watsonx_data.body
    /\ openai_response.choices = <<>>
    /\ status[request_data.r] = watsonx_data.status

RejectedEarly(code) ==
    /\ openai_response.status = code
    /\ status[request_data.r] = code
    /\ pc[request_data.r] = "done"
    /\ idCalls = 0
    /\ \A q \in Reqs : upCalls[q] = 0
    /\ cached_token = NoToken
    /\ token_expiration = 0

\* C17: in legacy mode a string prompt is used as it is, a list of strings
\* is joined with single spaces, and a prompt that is present and neither
\* (a number, an object, null, a list with a non-string element) is
\* answered 400 before any token fetch or upstream call.
C17_PromptValidation ==
    (request_data.k = "completions" /\ request_data.body = "object")
    => /\ request_data.prompt = "string"
            => request_data.input = <<"a b">>
       /\ request_data.prompt = "list_of_strings"
            => request_data.input = <<"a", " ", "b">>
       /\ request_data.prompt \in {"number", "object", "null", "mixed_list"}
            => RejectedEarly(400)

\* C18: on every POST endpoint a body that is no JSON, or JSON that is no
\* object, is answered 400 before any identity or upstream call and with
\* the token cache unchanged.
C18_MalformedBodyIs400 ==
    (request_data.k \in PostKinds /\ request_data.body \in {"not_json", "not_object"})
    => RejectedEarly(400)

\* C19: a legacy upstream answer 2xx with an empty or missing results list
\* is answered with a text_completion of one choice with the placeholder
\* text, finish_reason "length" and the placeholder usage counts.
C19_EmptyResultsPlaceholder ==
    (/\ request_data.k = "completions"
     /\ Replied
     /\ Is2xx(watsonx_data.status)
     /\ watsonx_data.body.list = <<>>)
    => /\ openai_response.status = 200
       /\ openai_response.object = "text_completion"
       /\ openai_response.choices =
            <<[text |-> "\n\nNo response available.", finish_reason |-> "length"]>>
       /\ openai_response.usage = <<5, 7, 12>>

\* C20: in a returned completion every choice has the finish_reason the
\* upstream supplied (stop_reason in legacy mode, finish_reason in chat
\* mode), or "length" (legacy) / "stop" (chat) when it supplied none, and
\* the text the upstream generated.
C20_FinishReasonMapping ==
    (/\ request_data.k \in PostKinds
     /\ Replied
     /\ openai_response.status = 200
     /\ watsonx_data.body.list # <<>>)
    => LET up == watsonx_data.body.list
           ch == openai_response.choices
       IN  /\ Len(ch) = IF request_data.k = "completions" THEN 1 ELSE Len(up)
           /\ \A i \in 1 .. Len(ch) :
                IF request_data.k = "completions"
                THEN /\ ch[i].finish_reason =
                          IF up[i].stop_reason # "absent" THEN up[i].stop_reason ELSE "length"
                     /\ up[i].generated_text # "absent" => ch[i].text = up[i].generated_text
                ELSE /\ ch[i].finish_reason =
                          IF up[i].finish_reason # "absent" THEN up[i].finish_reason ELSE "stop"
                     /\ up[i].content \notin {"absent", "null"} => ch[i].text = up[i].content

\* A chat response of two choices: one finish_reason copied, one defaulted.
C20_Witness ==
    /\ request_data.k = "chat"
    /\ openai_response.status = 200
    /\ Len(openai_response.choices) = 2
    /\ openai_response.choices[1] = [text |-> "Hello", finish_reason |-> "length"]
    /\ openai_response.choices[2] = [text |-> "Hello", finish_reason |-> "stop"]
    /\ watsonx_data.body.list[2].finish_reason = "absent"

\* The answer the upstream would have given with its first result or
\* choice only.
FirstOnly ==
    [watsonx_data EXCEPT !.body.list = IF @ = <<>> THEN <<>> ELSE <<@[1]>>]

\* C27, as claimed: every buffered response, legacy or chat, carries exactly
\* one choice, built from the first upstream result or choice.
C27_SoleChoice ==
    (/\ request_data.k \in PostKinds
     /\ Replied
     /\ openai_response.status = 200)
    => /\ Len(openai_response.choices) = 1
       /\ openai_response.choices = Respond(request_data.k, FirstOnly, "none").choices

\* C27, amended: a returned legacy response carries exactly one choice,
\* built from the first upstream result whatever follows it; a returned chat
\* response carries one choice for each upstream choice, in upstream order,
\* and one choice when the upstream sent none.
C27_ChoicesOfBufferedResponse ==
    (/\ request_data.k \in PostKinds
     /\ Replied
     /\ openai_response.status = 200)
    => LET up == watsonx_data.body.list
           ch == openai_response.choices
       IN  IF request_data.k = "completions"
           THEN /\ Len(ch) = 1
                /\ ch = RespondLegacy(FirstOnly).choices
           ELSE /\ Len(ch) = IF up = <<>> THEN 1 ELSE Len(up)
                /\ \A i \in 1 .. Len(up) : ch[i] = ChatChoice(up[i])

\* A legacy response of one choice to an upstream answer of two different
\* results.
C27_Witness ==
    /\ request_data.k = "completions"
    /\ openai_response.status = 200
    /\ Len(watsonx_data.body.list) = 2
    /\ watsonx_data.body.list[1].generated_text = "Hello"
    /\ watsonx_data.body.list[2].generated_text = "absent"
    /\ openai_response.choices = <<[text |-> "Hello", finish_reason |-> "length"]>>

\* C26: the model list answered for an upstream catalog whose resources
\* carry their limits is {data: [...]} with one descriptor per resource, in
\* the upstream order, each with id = the resource's model_id, object =
\* "model" and max_tokens = token_limits.max_output_tokens = the resource's
\* max_output_tokens; the descriptor of a record is the one it gets in a
\* catalog of its own.
C26_CatalogMapping ==
    (/\ request_data.k = "models"
     /\ Replied
     /\ Is2xx(watsonx_data.status)
     /\ watsonx_data.body.key = "present"
     /\ \A i \in 1 .. Len(watsonx_data.body.list) :
            watsonx_data.body.list[i].model_limits.key = "present")
    => LET resources == watsonx_data.body.list
           data == openai_response.choices
           alone(i) == [status |-> 200, body |-> [key |-> "present", list |-> <<resources[i]>>]]
       IN  /\ openai_response.status = 200
           /\ openai_response.object = "list"
           /\ Len(data) = Len(resources)
           /\ \A i \in 1 .. Len(resources) :
                /\ data[i].id = resources[i].model_id
                /\ data[i].object = "model"
                /\ data[i].max_tokens = resources[i].model_limits.max_output_tokens
                /\ data[i].token_limits.max_output_tokens
                        = resources[i].model_limits.max_output_tokens
                /\ <<data[i]>> = RespondCatalog("models", alone(i), "none").choices

\* A catalog of two records of one model id with different limits has been
\* listed.
C26_Witness ==
    /\ request_data.k = "models"
    /\ openai_response.status = 200
    /\ Len(watsonx_data.body.list) = 2
    /\ watsonx_data.body.list[1].model_id = watsonx_data.body.list[2].model_id
    /\ watsonx_data.body.list[1].model_limits.max_output_tokens = 8192
    /\ watsonx_data.body.list[2].model_limits.max_output_tokens = 4096
    /\ Len(openai_response.choices) = 2

\* C32: a credential exchange that raises or answers a non-success status
\* (or a body that is no JSON, which raises as well) leaves the cache as it
\* was: cached_token and token_expiration keep the
\* values they had before the call, whether or not a token was cached, and
\* the request ends with status 500.
C32_FailedRefreshKeepsCache ==
    [][\A r \in Reqs :
        (pc[r] = "iam_post" /\ iam_log'[r] = "error")
        => /\ cached_token' = cached_token
           /\ token_expiration' = token_expiration
           /\ pc'[r] = "done"
           /\ status'[r] = 500]_vars

\* The second request's exchange failed and the token the first request had
\* cached, already past its margin, is still there with its expiry.
C32_Witness ==
    /\ iam_log[1] = "fetched"
    /\ iam_log[2] = "error"
    /\ cached_token = 1
    /\ token_expiration = lastWrite[2]
    /\ token_expiration # 0
    /\ idCalls = 2

(***************************************************************************)
(* Claims about the translation of a request (PayloadSpec)                 *)
(***************************************************************************)
\* The observed request has been translated.
Translated ==
    watsonx_payload # NoPayload

ChatPaths ==
    {p \in Paths : HandlerOf(p) # "completions"}

\* C21: for every chat request (the chat route and its two aliases) the
\* upstream payload's `messages` is the inbound message list, same elements
\* in the same order, and its `frequency_penalty` is the request's
\* presence_penalty, 1 when the request has none.
C21_ChatTranslation ==
    (Translated /\ request.path \in ChatPaths)
    => /\ "messages" \in DOMAIN watsonx_payload
       /\ watsonx_payload.messages = request.json.messages.list
       /\ "frequency_penalty" \in DOMAIN watsonx_payload
       /\ watsonx_payload.frequency_penalty = Get(request.json.presence_penalty, "1")

\* C22: for the same body, /v1/chat/chat/completions and
\* /v1/n8n/chat/completions build the payload that /v1/chat/completions
\* builds: the same fields with the same values, defaults included.
C22_AliasEquivalence ==
    (Translated /\ request.path \in ChatPaths)
    => watsonx_payload = Payload(HandlerOf("/v1/chat/completions"), request.json)

\* C24: a request that carries tools, functions, tool_choice or
\* function_call is translated all the same, and its upstream payload is the
\* payload of the same request without those fields: none of them is a key
\* of the payload.
C24_ToolFieldsDropped ==
    /\ ~Translated => ENABLED PayloadNext
    /\ Translated
        => /\ watsonx_payload =
                Payload(HandlerOf(request.path), [request.json EXCEPT !.tooling = NoTools])
           /\ DOMAIN watsonx_payload \cap {"tools", "functions", "tool_choice", "function_call"}
                = {}

\* A chat request with `tools` and a stop sequence has been translated.
C24_Witness ==
    /\ Translated
    /\ request.path = "/v1/chat/completions"
    /\ request.json.tooling.tools = "given"
    /\ request.json.stop = "given"
    /\ watsonx_payload.stop = "given"

\* The request that differs from the observed one in its Authorization
\* header only.
OtherCaller ==
    [request EXCEPT !.authorization = IF @ = "absent" THEN "Bearer sk-caller" ELSE "absent"]

\* C25: the caller's Authorization header is ignored: the upstream payload
\* and headers built for a request are those built for the request that
\* differs only in that header, the upstream Authorization is the cached
\* upstream credential, and the caller's key is no part of what is sent.
C25_AuthorizationIgnored ==
    Translated
    => /\ watsonx_payload = Payload(HandlerOf(OtherCaller.path), OtherCaller.json)
       /\ headers = Headers(cached_token)
       /\ cached_token = iam_token[1]
       /\ headers.Authorization[1] # request.authorization

\* A request with a caller key has been translated, the upstream
\* Authorization being the gateway's own token.
C25_Witness ==
    /\ Translated
    /\ request.authorization = "Bearer sk-caller"
    /\ headers.Authorization = <<"Bearer", cached_token>>
    /\ cached_token # NoToken

(***************************************************************************)
(* Claims about one request served end to end (ServeSpec)                  *)
(***************************************************************************)
\* The calls fail that make get_iam_token raise.
IamFailed(r) ==
    iam_log[r] \in {"error", "crash"}

\* C23: one inbound request causes at most one credential exchange and at
\* most one call to the upstream generation, chat, stream or catalog
\* endpoint; a request whose credential exchange failed has ended with an
\* error and made no upstream call, a request whose buffered upstream call
\* failed has ended with an error, and a stream that failed has made its one
\* call and ends with the in-band error chunk, all without another attempt.
C23_NoRetries ==
    /\ idCalls <= Cardinality({r \in Reqs : pc[r] # "wait"})
    /\ idCalls <= 1
    /\ \A r \in Reqs :
        /\ upCalls[r] <= 1
        /\ IamFailed(r)
            => (pc[r] = "done" /\ status[r] = 500 /\ upCalls[r] = 0 /\ idCalls = 1)
        /\ (request_data.r = r /\ Replied
                /\ (watsonx_data.status = 0 \/ RaisesForStatus(watsonx_data.status)))
            => (pc[r] = "done" /\ status[r] >= 400 /\ upCalls[r] = 1)
        /\ failure[r] # "none"
            => /\ pc[r] \in {"term", "closed"}
               /\ upCalls[r] = 1
               /\ \E i \in 1 .. Len(out[r]) : out[r][i] = ErrorChunk(failure[r])

\* A stream that failed after its one upstream call and closed, behind one
\* credential exchange.
C23_Witness ==
    \E r \in Reqs :
        /\ request_data.r = r
        /\ failure[r] = "read_timeout"
        /\ pc[r] = "closed"
        /\ Len(sent[r]) > 0
        /\ upCalls[r] = 1
        /\ idCalls = 1

(***************************************************************************)
(* Stream relay: the shape of a completed stream (RelaySpec)               *)
(***************************************************************************)
\* The positions of the output that hold a chunk with finish_reason "stop".
StopPositions(o) ==
    {i \in 1 .. Len(o) : o[i].finish_reason = "stop"}

\* C29: every completed stream holds exactly one chunk with finish_reason
\* "stop", and it is the chunk right before the [DONE] terminator, on every
\* path: upstream [DONE], upstream end without [DONE] after content,
\* fallback and error.
C29_OneStopBeforeDone ==
    \A r \in Reqs :
        pc[r] = "closed"
        => /\ Len(out[r]) >= 2
           /\ out[r][Len(out[r])] = Terminator
           /\ StopPositions(out[r]) = {Len(out[r]) - 1}

C31_OneResponseId ==
    \A r \in Reqs :
        \A i, j \in 1 .. Len(out[r]) :
            (out[r][i] # Terminator /\ out[r][j] # Terminator)
            => out[r][i].id = out[r][j].id

\* The concatenation of the content of a sequence of chunks.
RECURSIVE ContentOf(_)
ContentOf(o) ==
    IF o = <<>> THEN <<>> ELSE Head(o).content \o ContentOf(Tail(o))

\* C33: the placeholder content chunk is in the output only of a stream
\* that has emitted no chunk of upstream content, and accumulated_content
\* is the concatenation, in order, of the upstream content emitted so far.
C33_AccumulatedContent ==
    \A r \in Reqs :
        /\ acc[r] = ContentOf(RelayedContent(out[r]))
        /\ (\E i \in 1 .. Len(out[r]) : out[r][i] = ContentChunk(Placeholder))
            => RelayedContent(out[r]) = <<>>

\* A stream that relayed two fragments and ended.
C33_Witness ==
    \E r \in Reqs :
        /\ pc[r] = "closed"
        /\ acc[r] = <<"He", "llo">>
        /\ RelayedContent(out[r]) = <<ContentChunk(<<"He">>), ContentChunk(<<"llo">>)>>

(***************************************************************************)
(* Claims about the relay with cancellation (CancelSpec)                   *)
(***************************************************************************)
\* C28: when the caller disconnects during a streamed response, the relay
\* consumes no further upstream event, closes the upstream connection and
\* yields nothing more, on the step of the cancellation and ever after: no
\* error chunk and no terminator follow the cancellation point.
C28_Cancellation ==
    [][\A r \in Reqs :
        failure'[r] = "cancelled"
        => /\ out'[r] = out[r]
           /\ sent'[r] = sent[r]
           /\ upCalls'[r] = upCalls[r]
           /\ lines'[r] = <<>>
           /\ ~ClientOpen(r)']_vars

\* The caller left after the first content chunk, with a line of the
\* network chunk still unprocessed, and nothing followed.
C28_Witness ==
    \E r \in Reqs :
        /\ failure[r] = "cancelled"
        /\ pc[r] = "cancelled"
        /\ Len(sent[r]) = 2
        /\ out[r] = <<InitChunk, ContentChunk(<<"He">>)>>

====
